---- MODULE Spec2Model ----
(***************************************************************************)
(* Model of timetree_inference.py, the command-line wrapper that drives    *)
(* the TreeTime inference engine: argument parsing, dates-file parsing,    *)
(* the Tc option, engine set-up and run, textual output, branch-length     *)
(* conversion, output decoration of the tree and the nexus write.          *)
(*                                                                         *)
(* Python strings are sequences of symbols.  A symbol is a one-character   *)
(* string, except for the symbols of Blocks, each of which stands for one  *)
(* fixed run of TruncLen ordinary characters (letters, no comma, no blank),*)
(* and CommentHead, which stands for the literal '&mutations="'.  Python   *)
(* None-able values are sequences of length 0 (None) or 1 (the value).     *)
(***************************************************************************)
EXTENDS Integers, Sequences, FiniteSets, TLC

VARIABLES pc, argv, dateFile, bioversion, inTree,
          params, dates, Tc, engine, tree, stdout, blConversions, written

vars == <<pc, argv, dateFile, bioversion, inTree,
          params, dates, Tc, engine, tree, stdout, blConversions, written>>

-----------------------------------------------------------------------------
(* Program constants *)

\* n.name[:35]
TruncLen == 35
\* len(n.name)>40
MaxNameLen == 40
\* '_%03d'
CounterWidth == 3
\* --max_iter default
MaxIterDefault == 2
\* Tc<1e-5 : the exponent of the threshold
TcMinExp == -5

(* Bounds of the model *)

\* largest --max_iter value given on the command line
MaxIterArg == 3
\* largest number of lines of a dates file
MaxDateLines == 3
\* largest number of nodes of an input tree
MaxNodes == 4
\* largest number of mutations on one branch
MaxMutations == 2

-----------------------------------------------------------------------------
(* Strings *)

None == <<>>
Some(v) == <<v>>

Blocks == {"P", "Q"}
CommentHead == "&mutations=\""

DigitChars == <<"0", "1", "2", "3", "4", "5", "6", "7", "8", "9">>
DigitSet == {DigitChars[i] : i \in 1..10}
DigitVal(c) == (CHOOSE i \in 1..10 : DigitChars[i] = c) - 1

\* len() of one symbol
SymLen(c) == IF c \in Blocks THEN TruncLen ELSE IF c = CommentHead THEN 12 ELSE 1

RECURSIVE StrLen(_)
StrLen(s) == IF s = <<>> THEN 0 ELSE SymLen(Head(s)) + StrLen(Tail(s))

\* s[:n]; a symbol is kept when it ends within the first n characters
RECURSIVE Take(_, _)
Take(s, n) ==
    IF s = <<>> \/ SymLen(Head(s)) > n THEN <<>>
    ELSE <<Head(s)>> \o Take(Tail(s), n - SymLen(Head(s)))

\* str(n) for n >= 0
RECURSIVE IntToStr(_)
IntToStr(n) ==
    IF n < 10 THEN <<DigitChars[n + 1]>>
    ELSE IntToStr(n \div 10) \o <<DigitChars[(n % 10) + 1]>>

\* int(s) for a non-empty string of digits
RECURSIVE DigitsToInt(_)
DigitsToInt(s) ==
    IF s = <<>> THEN 0
    ELSE 10 * DigitsToInt(SubSeq(s, 1, Len(s) - 1)) + DigitVal(s[Len(s)])

IsDigits(s) == \A i \in 1..Len(s) : s[i] \in DigitSet

\* '%0<w>d' % n : zero padding up to width w, never truncating
RECURSIVE ZeroPad(_, _)
ZeroPad(s, w) == IF Len(s) >= w THEN s ELSE ZeroPad(<<"0">> \o s, w)

\* s.strip() for blanks
RECURSIVE LStrip(_)
LStrip(s) == IF s # <<>> /\ Head(s) = " " THEN LStrip(Tail(s)) ELSE s
RECURSIVE RStrip(_)
RStrip(s) ==
    IF s # <<>> /\ s[Len(s)] = " " THEN RStrip(SubSeq(s, 1, Len(s) - 1)) ELSE s
Strip(s) == RStrip(LStrip(s))

\* position of the first occurrence of a symbol of cs in s, 0 when none
FirstIndex(s, cs) ==
    IF \E i \in 1..Len(s) : s[i] \in cs
    THEN CHOOSE i \in 1..Len(s) : s[i] \in cs /\ \A j \in 1..(i - 1) : s[j] \notin cs
    ELSE 0

\* s.split(c)
RECURSIVE Split(_, _)
Split(s, c) ==
    LET i == FirstIndex(s, {c})
    IN IF i = 0 THEN <<s>>
       ELSE <<SubSeq(s, 1, i - 1)>> \o Split(SubSeq(s, i + 1, Len(s)), c)

\* c.join(parts)
RECURSIVE Join(_, _)
Join(parts, c) ==
    IF parts = <<>> THEN <<>>
    ELSE IF Len(parts) = 1 THEN parts[1]
    ELSE parts[1] \o <<c>> \o Join(Tail(parts), c)

\* ord() of the characters a version string is made of
Ord(c) == IF c = "." THEN 46 ELSE 48 + DigitVal(c)

\* a < b for Python strings: lexicographic by code point
RECURSIVE StrLess(_, _)
StrLess(a, b) ==
    IF b = <<>> THEN FALSE
    ELSE IF a = <<>> THEN TRUE
    ELSE IF Ord(Head(a)) # Ord(Head(b)) THEN Ord(Head(a)) < Ord(Head(b))
    ELSE StrLess(Tail(a), Tail(b))

-----------------------------------------------------------------------------
(* float() *)

LowerOf(c) ==
    CASE c = "N" -> "n" [] c = "A" -> "a" [] c = "I" -> "i" [] c = "F" -> "f"
      [] c = "T" -> "t" [] c = "Y" -> "y" [] c = "E" -> "e" [] OTHER -> c
Lower(s) == [i \in 1..Len(s) |-> LowerOf(s[i])]

NotAFloat == [ok |-> FALSE, cls |-> "none", m |-> 0, e |-> 0]
Finite(m, e) == [ok |-> TRUE, cls |-> "finite", m |-> m, e |-> e]
Special(cls) == [ok |-> TRUE, cls |-> cls, m |-> 0, e |-> 0]

\* the decimal part of a float literal: digits [. digits], at least one digit
ParseMantissa(s) ==
    LET dot == FirstIndex(s, {"."})
        ip == IF dot = 0 THEN s ELSE SubSeq(s, 1, dot - 1)
        fp == IF dot = 0 THEN <<>> ELSE SubSeq(s, dot + 1, Len(s))
    IN IF IsDigits(ip) /\ IsDigits(fp) /\ Len(ip) + Len(fp) > 0
       THEN Finite(DigitsToInt(ip \o fp), 0 - Len(fp))
       ELSE NotAFloat

\* the exponent part: [sign] digits
ParseExponent(s) ==
    LET neg == s # <<>> /\ Head(s) = "-"
        r   == IF s # <<>> /\ Head(s) \in {"+", "-"} THEN Tail(s) ELSE s
    IN IF r # <<>> /\ IsDigits(r)
       THEN Finite(IF neg THEN 0 - DigitsToInt(r) ELSE DigitsToInt(r), 0)
       ELSE NotAFloat

\* float(s): the value m * 10^e, an infinity, a NaN, or ValueError (ok = FALSE)
ParseFloat(s) ==
    LET t   == Lower(Strip(s))
        neg == t # <<>> /\ Head(t) = "-"
        u   == IF t # <<>> /\ Head(t) \in {"+", "-"} THEN Tail(t) ELSE t
        ei  == FirstIndex(u, {"e"})
        mp  == ParseMantissa(IF ei = 0 THEN u ELSE SubSeq(u, 1, ei - 1))
        ep  == IF ei = 0 THEN Finite(0, 0) ELSE ParseExponent(SubSeq(u, ei + 1, Len(u)))
    IN IF u = <<"n", "a", "n">> THEN Special("nan")
       ELSE IF u \in {<<"i", "n", "f">>, <<"i", "n", "f", "i", "n", "i", "t", "y">>}
            THEN Special(IF neg THEN "-inf" ELSE "inf")
       ELSE IF mp.ok /\ ep.ok
            THEN Finite(IF neg THEN 0 - mp.m ELSE mp.m, mp.e + ep.m)
       ELSE NotAFloat

RECURSIVE Pow10(_)
Pow10(k) == IF k = 0 THEN 1 ELSE 10 * Pow10(k - 1)

\* x < 10^k for a float x (every comparison with a NaN is False)
FloatLessPow10(x, k) ==
    CASE x.cls = "nan"  -> FALSE
      [] x.cls = "inf"  -> FALSE
      [] x.cls = "-inf" -> TRUE
      [] OTHER -> IF x.m <= 0 THEN TRUE
                  ELSE IF x.e >= k THEN FALSE
                  ELSE IF k - x.e > 9 THEN TRUE
                  ELSE x.m < Pow10(k - x.e)

-----------------------------------------------------------------------------
(* The inputs of a run *)

\* command lines: which of the modelled options are given, and their values
TcPool ==
    { <<"0", ".", "0">>, <<"0">>, <<"-", "1">>, <<"1", "e", "-", "6">>,
      <<"0", ".", "0", "0", "0", "0", "0", "9">>, <<"0", ".", "0", "0", "0", "0", "1">>,
      <<"1", "e", "-", "5">>, <<"0", ".", "5">>, <<" ", "2">>,
      <<"o", "p", "t">>, <<"s", "k", "y", "l", "i", "n", "e">>,
      <<"s", "k", "y", "l", "i", "n", "e", " ">>, <<"O", "p", "t">>,
      <<"f", "o", "o">>, <<>>, <<"n", "a", "n">>, <<"i", "n", "f">>,
      <<"-", "i", "n", "f">> }

RelaxPool ==
    { <<>>, << <<"1", ".", "0">>, <<"0", ".", "5">> >>, << <<"1">> >>,
      << <<"a">>, <<"b">>, <<"c">> >> }

MaxIterPool == { IntToStr(k) : k \in 1..MaxIterArg }

Argvs(tcs, relaxes, iters, flags) ==
    [ infer_gtr : flags, relax : relaxes, max_iter : iters, Tc : tcs, plot : flags ]

DefaultArgv ==
    [ infer_gtr |-> FALSE, relax |-> None, max_iter |-> None, Tc |-> None,
      plot |-> FALSE ]

\* installed versions of the serialization library
VersionPool ==
    { <<"1", ".", "6", "8">>, <<"1", ".", "6", "9">>, <<"1", ".", "7", "0">>,
      <<"1", ".", "1", "0", "0">>, <<"2", ".", "0">> }
DefaultVersion == <<"1", ".", "7", "0">>

\* leaf names: short ones, names of 39, 40 and 41 characters
LeafNamePool ==
    { <<"A">>,
      <<"P", "_", "0", "0", "0">>,
      <<"P", "a", "a", "a", "a", "a">>,
      <<"P", "a", "a", "a", "a", "a", "a">>,
      <<"P", "a", "a", "a", "a", "a", "b">>,
      <<"Q", "a", "a", "a", "a", "a", "a">> }

\* trees in find_clades (preorder) order: node 1 is the root, up = 0 is None
RECURSIVE Ancestors(_, _)
Ancestors(up, i) == IF up[i] = 0 THEN {} ELSE {up[i]} \cup Ancestors(up, up[i])

UpVectors(n) ==
    { up \in [1..n -> 0..(n - 1)] :
        /\ up[1] = 0
        /\ \A i \in 2..n : up[i] \in {i - 1} \cup Ancestors(up, i - 1) }

IsTerminal(t, i) == \A j \in 1..Len(t) : t[j].up # i
Terminals(t) == { i \in 1..Len(t) : IsTerminal(t, i) }
LeafNames(t) == { t[i].name : i \in Terminals(t) }

Mutation(a, pos, d) == <<a, pos, d>>
MutationPool == { Mutation("A", 7, "G"), Mutation("-", 105, "T") }
MutationLists == UNION { [1..k -> MutationPool] : k \in 0..MaxMutations }
DefaultMutations == << Mutation("C", 12, "T") >>

OldComment == <<"[", "x", "]">>
DefaultConfidence == Some(90)

InternalName(i) == <<"N", DigitChars[i + 1]>>

\* a tree of a given shape whose leaves carry the given names
TreeOf(up, names, muts, comments, conf) ==
    [ i \in 1..Len(up) |->
        [ up |-> up[i],
          name |-> IF \A j \in 1..Len(up) : up[j] # i THEN names[i] ELSE InternalName(i),
          mutations |-> muts[i],
          comment |-> comments[i],
          confidence |-> conf ] ]

Cherry == <<0, 1, 1>>
DefaultTree ==
    TreeOf(Cherry, << <<"R">>, <<"A">>, <<"B">> >>,
           [i \in 1..3 |-> DefaultMutations], [i \in 1..3 |-> None], DefaultConfidence)

\* trees of every shape up to MaxNodes nodes with pairwise distinct leaf names
NamedTrees ==
    UNION { UNION { { TreeOf(up, names, [i \in 1..n |-> DefaultMutations],
                             [i \in 1..n |-> None], DefaultConfidence) :
                      names \in { f \in [1..n -> LeafNamePool] :
                                    /\ \A i \in 1..n :
                                         (\E j \in 1..n : up[j] = i) => f[i] = <<"A">>
                                    /\ \A i, j \in 1..n :
                                         ( /\ i # j
                                           /\ \A k \in 1..n : up[k] # i /\ up[k] # j )
                                         => f[i] # f[j] } } :
                    up \in UpVectors(n) } :
            n \in 2..MaxNodes }

\* the cherry with every combination of inferred mutations, with or without
\* comments read from the tree file
MutatedTrees ==
    { TreeOf(Cherry, << <<"R">>, <<"A">>, <<"B">> >>, muts, [i \in 1..3 |-> c],
             DefaultConfidence) :
        muts \in [1..3 -> MutationLists], c \in {None, Some(OldComment)} }

\* a dates file with one well-formed line per leaf
RECURSIVE DateLinesOf(_)
DateLinesOf(names) ==
    IF names = {} THEN <<>>
    ELSE LET n == CHOOSE x \in names : TRUE
         IN << n \o <<",", "1", "2", ".", "5">> >> \o DateLinesOf(names \ {n})

DatesFor(t) == DateLinesOf(LeafNames(t))

DateLinePool ==
    { <<"A", ",", "1", "2", ".", "5">>, <<"B", ",", " ", "1", "3">>,
      <<"B", ",", "1", "3", ",", "x">>, <<"B", ",", "1", "x">>, <<"B">>,
      <<"n", "a", "m", "e", ",", "d", "a", "t", "e">>, <<"C", ",">> }

DateFiles == UNION { [1..k -> DateLinePool] : k \in 0..MaxDateLines }

-----------------------------------------------------------------------------
(* parameter parsing *)

InferGtrDefault == TRUE

\* action='store_true': the flag stores True, its absence leaves the default
StoreTrue(given, default) == IF given THEN TRUE ELSE default

Bool(b) == [kind |-> "bool", b |-> b, items |-> <<>>]
List(items) == [kind |-> "list", b |-> FALSE, items |-> items]
PyStr(s) == [type |-> "str", val |-> s]

\* nargs='*' without a type: the list of the option's argument strings
RelaxArg(given) ==
    IF given = None THEN Bool(FALSE)
    ELSE List([i \in 1..Len(given[1]) |-> PyStr(given[1][i])])

\* if params.relax==[]: params.relax=True
NormaliseRelax(r) == IF r.kind = "list" /\ r.items = <<>> THEN Bool(TRUE) ELSE r

ParseArgsOf(a) ==
    [ infer_gtr |-> StoreTrue(a.infer_gtr, InferGtrDefault),
      relax     |-> NormaliseRelax(RelaxArg(a.relax)),
      max_iter  |-> IF a.max_iter = None THEN MaxIterDefault ELSE DigitsToInt(a.max_iter[1]),
      Tc        |-> IF a.Tc = None THEN <<"0", ".", "0">> ELSE a.Tc[1],
      plot      |-> StoreTrue(a.plot, FALSE) ]

(* PARSING DATES *)

\* one line of the dates file: the dates mapping after it
DateLine(d, line) ==
    LET fields == Split(Strip(line), ",")
        date   == IF Len(fields) >= 2 THEN ParseFloat(fields[2]) ELSE NotAFloat
    IN IF Len(fields) >= 2 /\ date.ok
       THEN [n \in DOMAIN d \cup {fields[1]} |-> IF n = fields[1] THEN date ELSE d[n]]
       ELSE d

RECURSIVE ReadDates(_, _)
ReadDates(d, lines) ==
    IF lines = <<>> THEN d ELSE ReadDates(DateLine(d, Head(lines)), Tail(lines))

\* a line the loop skips: fewer than two fields, or a date float() rejects
Malformed(line) ==
    LET fields == Split(Strip(line), ",")
    IN Len(fields) < 2 \/ ~ParseFloat(fields[2]).ok

(* PARSING OPTIONS *)

TcNone == [kind |-> "None", f |-> NotAFloat, s |-> <<>>]
TcFloat(x) == [kind |-> "float", f |-> x, s |-> <<>>]
TcStr(s) == [kind |-> "str", f |-> NotAFloat, s |-> s]

TcOpt == <<"o", "p", "t">>
TcSkyline == <<"s", "k", "y", "l", "i", "n", "e">>

ParseTc(s) ==
    LET x == ParseFloat(s)
    IN IF x.ok
       THEN IF FloatLessPow10(x, TcMinExp) THEN TcNone ELSE TcFloat(x)
       ELSE IF s \in {TcOpt, TcSkyline} THEN TcStr(s) ELSE TcNone

(* SET-UP and RUN *)

CtorArgs(p, d) == [dates |-> d, gtr |-> "JC69"]

\* the iteration cap handed over is one more than the option asks for
RunArgsOffByOne(p, tc) ==
    [relaxed_clock |-> p.relax, Tc |-> tc, max_iter |-> p.max_iter + 1]

RunArgs(p, tc) == [relaxed_clock |-> p.relax, Tc |-> tc, max_iter |-> p.max_iter]

NoEngine ==
    [ status |-> "none", ctor |-> None, run |-> None, iter |-> 0, converged |-> FALSE ]

\* INIT of the engine: every leaf of the tree has a sampling date
EngineValidate(t, d) == LeafNames(t) \subseteq DOMAIN d

\* the engine goes through another outer iteration
EngineContinues(e) == e.iter < e.run[1].max_iter /\ ~e.converged

(* OUTPUT *)

\* plot_vs_years converts the branch lengths as part of plotting
PlotVsYears(n) == n + 1

\* myTree.branch_length_to_years()
BranchLengthToYears(n) == n + 1

\* the conversion is made on every path, also after the plot has made it
PlotThenConvert(plot, n) ==
    IF plot THEN BranchLengthToYears(PlotVsYears(n)) ELSE BranchLengthToYears(n)

PlotOrConvert(plot, n) == IF plot THEN PlotVsYears(n) ELSE BranchLengthToYears(n)

\* bioversion<"1.69"
OldBiopython(v) == StrLess(v, <<"1", ".", "6", "9">>)

\* n.is_terminal() and len(n.name)>40 and bioversion<"1.69"
NeedsTruncation(t, i, v) ==
    IsTerminal(t, i) /\ StrLen(t[i].name) > MaxNameLen /\ OldBiopython(v)

\* n.name[:35]+'_%03d'%terminal_count
TruncatedName(name, terminal_count) ==
    Take(name, TruncLen) \o <<"_">> \o ZeroPad(IntToStr(terminal_count), CounterWidth)

\* a+str(pos)+d
MutationStr(mu) == <<mu[1]>> \o IntToStr(mu[2]) \o <<mu[3]>>

\* the mutations joined by ',' as the branch labels of the plot are
MutationCommentComma(muts) ==
    <<CommentHead>> \o Join([i \in 1..Len(muts) |-> MutationStr(muts[i])], ",")
        \o <<"\"">>

\* '&mutations="' + '_'.join([...])+'"'
MutationComment(muts) ==
    <<CommentHead>> \o Join([i \in 1..Len(muts) |-> MutationStr(muts[i])], "_")
        \o <<"\"">>

\* the body of the loop for one clade
DecorateNode(t, i, v, terminal_count) ==
    LET n  == t[i]
        n1 == [n EXCEPT !.confidence = None]
        n2 == IF NeedsTruncation(t, i, v)
              THEN [n1 EXCEPT !.name = TruncatedName(n.name, terminal_count)]
              ELSE n1
    IN IF n.up = 0 THEN n
       ELSE IF Len(n.mutations) > 0
            THEN [n2 EXCEPT !.comment = Some(MutationComment(n.mutations))]
            ELSE n2

\* for n in myTree.tree.find_clades(): ...
RECURSIVE DecorateFrom(_, _, _, _)
DecorateFrom(t, i, v, terminal_count) ==
    IF i > Len(t) THEN t
    ELSE DecorateFrom([t EXCEPT ![i] = DecorateNode(t, i, v, terminal_count)], i + 1, v,
                      IF t[i].up # 0 /\ NeedsTruncation(t, i, v)
                      THEN terminal_count + 1 ELSE terminal_count)

Decorated(t, v) == DecorateFrom(t, 1, v, 0)

-----------------------------------------------------------------------------
(* The run *)

TypeOK ==
    /\ pc \in { "parse_args", "parse_dates", "parse_options", "setup", "run", "output",
                "plot", "decorate", "write", "done", "aborted" }
    /\ blConversions \in Nat

InitWith(a, f, v, t) ==
    /\ pc = "parse_args"
    /\ argv = a
    /\ dateFile = f
    /\ bioversion = v
    /\ inTree = t
    /\ params = None
    /\ dates = None
    /\ Tc = None
    /\ engine = NoEngine
    /\ tree = None
    /\ stdout = [gtr |-> FALSE, skyline |-> FALSE]
    /\ blConversions = 0
    /\ written = None

\* runs that differ in their command line
InitOptions ==
    \E a \in Argvs({None} \cup {Some(s) : s \in TcPool},
                   {None} \cup {Some(r) : r \in RelaxPool},
                   {None} \cup {Some(k) : k \in MaxIterPool}, BOOLEAN) :
        /\ a.Tc = None \/ a.relax = None
        /\ InitWith(a, DatesFor(DefaultTree), DefaultVersion, DefaultTree)

\* runs that differ in their dates file
InitDates ==
    \E f \in DateFiles : InitWith(DefaultArgv, f, DefaultVersion, DefaultTree)

\* runs that differ in the leaf names of the tree and in the library version
InitNames ==
    \E t \in NamedTrees, v \in VersionPool : InitWith(DefaultArgv, DatesFor(t), v, t)

\* runs that differ in what the engine infers
InitMutations ==
    \E t \in MutatedTrees : InitWith(DefaultArgv, DatesFor(t), DefaultVersion, t)

Init == InitOptions \/ InitDates \/ InitNames \/ InitMutations

\* params = parser.parse_args() and the relax normalisation
ParseArgs ==
    /\ pc = "parse_args"
    /\ params' = Some(ParseArgsOf(argv))
    /\ pc' = "parse_dates"
    /\ UNCHANGED <<argv, dateFile, bioversion, inTree, dates, Tc, engine, tree, stdout,
                   blConversions, written>>

ParseDates ==
    /\ pc = "parse_dates"
    /\ dates' = Some(ReadDates(<<>>, dateFile))
    /\ pc' = "parse_options"
    /\ UNCHANGED <<argv, dateFile, bioversion, inTree, params, Tc, engine, tree, stdout,
                   blConversions, written>>

ParseOptions ==
    /\ pc = "parse_options"
    /\ Tc' = Some(ParseTc(params[1].Tc))
    /\ pc' = "setup"
    /\ UNCHANGED <<argv, dateFile, bioversion, inTree, params, dates, engine, tree,
                   stdout, blConversions, written>>

\* myTree = TreeTime(...) and the call of myTree.run(...)
SetUp ==
    /\ pc = "setup"
    /\ engine' = [ status    |-> IF EngineValidate(inTree, dates[1])
                                 THEN "running" ELSE "config_error",
                   ctor      |-> Some(CtorArgs(params[1], dates[1])),
                   run       |-> IF EngineValidate(inTree, dates[1])
                                 THEN Some(RunArgs(params[1], Tc[1])) ELSE None,
                   iter      |-> 0,
                   converged |-> FALSE ]
    /\ pc' = IF EngineValidate(inTree, dates[1]) THEN "run" ELSE "aborted"
    /\ UNCHANGED <<argv, dateFile, bioversion, inTree, params, dates, Tc, tree, stdout,
                   blConversions, written>>

\* one outer iteration of the engine, which may or may not reach convergence
EngineIterate ==
    /\ pc = "run"
    /\ EngineContinues(engine)
    /\ \E c \in BOOLEAN :
         engine' = [engine EXCEPT !.iter = @ + 1, !.converged = c]
    /\ UNCHANGED <<pc, argv, dateFile, bioversion, inTree, params, dates, Tc, tree,
                   stdout, blConversions, written>>

\* run returns: the tree with its inferred mutations is available
EngineReturn ==
    /\ pc = "run"
    /\ ~EngineContinues(engine)
    /\ engine' = [engine EXCEPT !.status = "returned"]
    /\ tree' = Some(inTree)
    /\ pc' = "output"
    /\ UNCHANGED <<argv, dateFile, bioversion, inTree, params, dates, Tc, stdout,
                   blConversions, written>>

\* the printed report
Output ==
    /\ pc = "output"
    /\ stdout' = [gtr |-> params[1].infer_gtr, skyline |-> Tc[1] = TcStr(TcSkyline)]
    /\ pc' = "plot"
    /\ UNCHANGED <<argv, dateFile, bioversion, inTree, params, dates, Tc, engine, tree,
                   blConversions, written>>

Plot ==
    /\ pc = "plot"
    /\ blConversions' = PlotOrConvert(params[1].plot, blConversions)
    /\ pc' = "decorate"
    /\ UNCHANGED <<argv, dateFile, bioversion, inTree, params, dates, Tc, engine, tree,
                   stdout, written>>

Decorate ==
    /\ pc = "decorate"
    /\ tree' = Some(Decorated(tree[1], bioversion))
    /\ pc' = "write"
    /\ UNCHANGED <<argv, dateFile, bioversion, inTree, params, dates, Tc, engine, stdout,
                   blConversions, written>>

\* Phylo.write(myTree.tree, outtree_name, 'nexus')
WriteTree ==
    /\ pc = "write"
    /\ written' = Some([tree |-> tree[1], conversions |-> blConversions])
    /\ pc' = "done"
    /\ UNCHANGED <<argv, dateFile, bioversion, inTree, params, dates, Tc, engine, tree,
                   stdout, blConversions>>

Next ==
    \/ ParseArgs
    \/ ParseDates
    \/ ParseOptions
    \/ SetUp
    \/ EngineIterate
    \/ EngineReturn
    \/ Output
    \/ Plot
    \/ Decorate
    \/ WriteTree

Spec == Init /\ [][Next]_vars

-----------------------------------------------------------------------------
(* Properties *)

Constructed == engine.ctor # None
Running == engine.run # None
Decorations == pc \in {"write", "done"}

\* the max_iter the command line asks for
AskedMaxIter ==
    IF argv.max_iter = None THEN MaxIterDefault ELSE DigitsToInt(argv.max_iter[1])

\* a Tc option that is no number and neither "opt" nor "skyline"
UnsupportedTc(s) == ~ParseFloat(s).ok /\ s \notin {TcOpt, TcSkyline}

\* C1: an unsupported Tc value is fatal before any inference: the engine is
\* never constructed nor run with it.
C1_UnsupportedTcIsFatal ==
    (params # None /\ UnsupportedTc(params[1].Tc))
        => (~Constructed /\ ~Running /\ pc \in {"parse_dates", "parse_options", "aborted"})

\* C2: a dates file with a malformed line is fatal before any inference: the
\* engine is never run with the sample of that line absent from the dates.
C2_MalformedDateIsFatal ==
    (\E i \in 1..Len(dateFile) : Malformed(dateFile[i]))
        => (~Running /\ pc \in {"parse_args", "parse_dates", "parse_options", "setup",
                                "aborted"})

\* C3: infer_gtr selects the substitution model: it is false unless the flag
\* is given, false hands the fixed JC69 model to the engine and true asks the
\* engine to estimate the model.
C3_InferGtrSelectsModel ==
    Constructed =>
        /\ params[1].infer_gtr = argv.infer_gtr
        /\ params[1].infer_gtr => engine.ctor[1].gtr # "JC69"
        /\ ~params[1].infer_gtr => engine.ctor[1].gtr = "JC69"

\* C4: the relaxed_clock handed to run is a boolean or a pair of two numbers;
\* --relax absent gives False and --relax without values gives True.
C4_RelaxIsBoolOrNumberPair ==
    Running =>
        LET r == engine.run[1].relaxed_clock
        IN /\ \/ r.kind = "bool"
              \/ /\ r.kind = "list"
                 /\ Len(r.items) = 2
                 /\ \A i \in 1..Len(r.items) : r.items[i].type = "float"
           /\ argv.relax = None => r = Bool(FALSE)
           /\ argv.relax = Some(<<>>) => r = Bool(TRUE)

\* C5: the engine never makes more outer iterations than the max_iter of the
\* command line (2 when the option is absent), and a run with max_iter = 1
\* returns after exactly one iteration with its result populated, converged
\* or not.
C5_MaxIterBoundsIterations ==
    Running =>
        /\ engine.iter <= AskedMaxIter
        /\ (AskedMaxIter = 1 /\ engine.status = "returned")
              => (engine.iter = 1 /\ tree # None /\ pc # "aborted")

C5_Witness ==
    /\ AskedMaxIter = 1
    /\ engine.status = "returned"
    /\ engine.iter = 1
    /\ ~engine.converged
    /\ tree # None

\* C6: when the nexus tree is written, with --plot or without, the branch
\* lengths have been converted to years exactly once, and no conversion
\* follows the write.
C6_ConvertedOnceBeforeWrite ==
    written # None => (written[1].conversions = 1 /\ blConversions = 1)

C6_Witness ==
    /\ written # None
    /\ params[1].plot
    /\ written[1].conversions = 1

DistinctLeafNames(t) ==
    \A i, j \in Terminals(t) : i # j => t[i].name # t[j].name

\* C7: leaf names that were pairwise distinct before the decoration loop are
\* pairwise distinct after it.
C7_LeafNamesStayDistinct ==
    (Decorations /\ DistinctLeafNames(inTree)) => DistinctLeafNames(tree[1])

\* C8: the Tc handed to the engine is None, a number >= 1e-5 (an infinite
\* one is let pass for a real one here), "opt" or "skyline"; a numeric option
\* below 1e-5 gives None, "opt" and "skyline" pass unchanged, and the skyline
\* is printed exactly when the option is "skyline".
C8_TcHandedToEngine ==
    Running =>
        LET tc  == engine.run[1].Tc
            opt == params[1].Tc
        IN /\ \/ tc = TcNone
              \/ /\ tc.kind = "float"
                 /\ tc.f.cls \in {"finite", "inf"}
                 /\ ~FloatLessPow10(tc.f, TcMinExp)
              \/ tc \in {TcStr(TcOpt), TcStr(TcSkyline)}
           /\ (ParseFloat(opt).ok /\ FloatLessPow10(ParseFloat(opt), TcMinExp))
                 => tc = TcNone
           /\ opt \in {TcOpt, TcSkyline} => tc = TcStr(opt)
           /\ pc \in {"plot", "decorate", "write", "done"}
                 => (stdout.skyline <=> opt = TcSkyline)

\* version order: the dot-separated numbers compared one after the other
VersionKey(v) == LET parts == Split(v, ".") IN [i \in 1..Len(parts) |-> DigitsToInt(parts[i])]

RECURSIVE KeyLess(_, _)
KeyLess(a, b) ==
    IF b = <<>> THEN FALSE
    ELSE IF a = <<>> THEN TRUE
    ELSE IF Head(a) # Head(b) THEN Head(a) < Head(b)
    ELSE KeyLess(Tail(a), Tail(b))

VersionPrecedes(v, w) == KeyLess(VersionKey(v), VersionKey(w))

\* C9: the loop rewrites a name only of a terminal whose name is longer than
\* 40 characters and only when the library version precedes 1.69 in version
\* order.
C9_RenameOnlyForOldLibrary ==
    Decorations =>
        \A i \in 1..Len(inTree) :
            tree[1][i].name # inTree[i].name
                => /\ IsTerminal(inTree, i)
                   /\ StrLen(inTree[i].name) > MaxNameLen
                   /\ VersionPrecedes(bioversion, <<"1", ".", "6", "9">>)

\* the piece of a comment that stands for one mutation: ancestral residue,
\* the digits of the position, derived residue
EncodesMutation(piece, mu) ==
    /\ Len(piece) >= 3
    /\ piece[1] = mu[1]
    /\ piece[Len(piece)] = mu[3]
    /\ IsDigits(SubSeq(piece, 2, Len(piece) - 1))
    /\ DigitsToInt(SubSeq(piece, 2, Len(piece) - 1)) = mu[2]

EncodesMutations(c, muts) ==
    /\ Len(c) >= 2
    /\ c[1] = CommentHead
    /\ c[Len(c)] = "\""
    /\ LET pieces == Split(SubSeq(c, 2, Len(c) - 1), "_")
       IN /\ Len(pieces) = Len(muts)
          /\ \A k \in 1..Len(muts) : EncodesMutation(pieces[k], muts[k])

\* C10: after the decoration loop every non-root node with mutations carries
\* a comment that encodes all of them in list order, joined by '_'; every
\* non-root node has its confidence cleared; the root and the nodes without
\* mutations keep their comment.
C10_MutationComments ==
    Decorations =>
        \A i \in 1..Len(inTree) :
            LET n == tree[1][i]
                o == inTree[i]
            IN /\ o.up # 0 => n.confidence = None
               /\ (o.up # 0 /\ Len(o.mutations) > 0)
                     => (n.comment # None /\ EncodesMutations(n.comment[1], o.mutations))
               /\ (o.up = 0 \/ Len(o.mutations) = 0) => n.comment = o.comment

C10_Witness ==
    /\ pc = "done"
    /\ \E i \in 1..Len(inTree) :
         /\ inTree[i].up # 0
         /\ Len(inTree[i].mutations) = 2
         /\ inTree[i].comment = Some(OldComment)
         /\ inTree[i].confidence # None
         /\ tree[1][i].comment = Some(MutationComment(inTree[i].mutations))
    /\ \E i \in 1..Len(inTree) :
         /\ inTree[i].up # 0
         /\ inTree[i].mutations = <<>>
         /\ inTree[i].comment = Some(OldComment)
    /\ inTree[1].mutations # <<>>
    /\ tree[1][1].comment = Some(OldComment)

====
